---- MODULE Spec2Model ----
(***************************************************************************)
(* A model of the one-on-one basketball simulation: the rules state        *)
(* machine (Rules), the two Players, the Ball, the AI controller and the   *)
(* per-tick orchestrator (GameScene.update and its keydown handler).       *)
(*                                                                         *)
(* Scale of the model.  The program integrates floating-point positions at *)
(* 60 steps per second; the model keeps every handler's control flow and   *)
(* replaces the arithmetic by integers on a coarse grid:                   *)
(*   - the court is reduced to its long axis (y); every entity stays on    *)
(*     the centre line x = WIDTH/2, where the rim and both check-ball      *)
(*     spots lie; lengths along it are in centimetres;                     *)
(*   - heights (z) are in grid units of 61 cm: the floor is 0, the hold    *)
(*     height (1.2 m) is 2 and the rim (3.05 m) is 5;                      *)
(*   - times are in milliseconds and one step of the model advances the    *)
(*     simulation by DT; a Player's velocity is the distance covered in    *)
(*     one step, the ball's the same;                                      *)
(*   - a Player that is driven in a step covers WalkStep and ends the step  *)
(*     above the 0.5 m/s threshold; an undriven Player is brought to rest  *)
(*     by friction within the step;                                        *)
(*   - the ball's air friction is compounded over the fixed ticks of one   *)
(*     step, and ground friction stops its roll at the first bounce;       *)
(*   - stamina, sprinting, facing, sounds and rendering are not modelled.  *)
(***************************************************************************)
EXTENDS Integers, Sequences, FiniteSets, TLC

VARIABLES rules, player, ai, ball, gs, aic, obs

vars == <<rules, player, ai, ball, gs, aic, obs>>

----------------------------------------------------------------------------
(* Bounds of the model *)

\* length of one model step, in milliseconds
DT == 345
\* the short shot-clock setting explored beside the unlimited one, in ms
ShotClockShort == 1000
\* distance a driven Player covers in one model step, in cm
WalkStep == 200
\* shots the human releases and baskets credited in one run
MaxShots == 1
MaxBaskets == 2
\* the stretch of the court the human walks their Player in, in cm
WalkMin == 380
WalkMax == 980
\* presses of KeyR in one run
MaxResets == 1

----------------------------------------------------------------------------
(* Program constants (config.js), lengths in cm, times in ms *)

COURT_LENGTH == 1400
THREE_POINT_RADIUS == 675
FREE_THROW_DISTANCE == 460
BACKBOARD_DISTANCE == 120
RIM_RADIUS == 23
WIN_SCORE == 11
FOUL_FREE_THROW_POINTS == 1
CHECK_BALL_DELAY == 1000
OUT_OF_BOUNDS_DELAY == 3000
OUT_OF_BOUNDS_MARGIN == 30
STEAL_COOLDOWN == 700
STEPBACK_COOLDOWN == 500
STEPBACK_INVULN_TIME == 150
PLAYER_RADIUS == 35
\* shot power is in thousandths: MIN 0.2, MAX 1.0, charge rate 1.2 per second
MIN_SHOT_POWER == 200
MAX_SHOT_POWER == 1000
POWER_CHARGE_RATE == 1200
\* heights on the vertical grid: hold height 1.2 m, rim 3.05 m, and the
\* gravity and launch speed that carry a shot over the rim on that grid
HOLD_HEIGHT == 2
RIM_HEIGHT == 5
BACKBOARD_HEIGHT == 1
GRAVITY == 2
LAUNCH_VZ == 5
\* FRICTION_AIR (0.99 per fixed tick) compounded over one step, in percent
FRICTION_AIR_STEP == 81
\* the ball's radius and the 0.5 m/s rest threshold on the vertical grid
BALL_RADIUS_Z == 0
REST_SPEED_Z == 2
\* twice the ball's radius (0.24 m), the rim's height tolerance, on the grid
RIM_TOLERANCE_Z == 0
\* BOUNCE_FACTOR, in percent
BOUNCE_FACTOR == 75
MAGNETIC_WINDOW == 8
SHOT_BASE_SPEED == 600
FORCE_SHOT_TIME == 5000
DECISION_DELAY == 200
\* SHOT_ACCURACY of the STANDARD difficulty, in percent
SHOT_ACCURACY == 75
CONTEST_DISTANCE == 150
DEFENSE_PRESS_DISTANCE == 200
\* the sentinel for an unlimited shot clock (Infinity in SHOT_CLOCK_OPTIONS)
Infinity == 1000000
\* the sentinel of a timer that is not armed (null / undefined)
NoTimer == -1

Teams == {"player", "ai"}

Other(team) == IF team = "player" THEN "ai" ELSE "player"

Abs(n) == IF n < 0 THEN -n ELSE n

Max(a, b) == IF a > b THEN a ELSE b

Min(a, b) == IF a < b THEN a ELSE b

\* n * num / den rounded toward zero, as the grid keeps whole units
Scale(n, num, den) == IF n < 0 THEN -((-n * num) \div den) ELSE (n * num) \div den

\* a - d on a clock that may be unlimited: Infinity - dt is Infinity
Minus(a, d) == IF a = Infinity THEN Infinity ELSE a - d

\* distance on the centre line
distance(y1, y2) == Abs(y1 - y2)

rimY == BACKBOARD_DISTANCE

----------------------------------------------------------------------------
(* GameSettings *)

ScoringSystem(s) ==
    IF s.scoringSystem = "street"
    THEN [INSIDE |-> 1, THREE_POINT |-> 2]
    ELSE [INSIDE |-> 2, THREE_POINT |-> 3]

isThreePoint(y) == distance(y, rimY) >= THREE_POINT_RADIUS

----------------------------------------------------------------------------
(* Rules *)

NewStats == [playerShots |-> 0, playerMakes |-> 0, aiShots |-> 0,
             aiMakes |-> 0, fouls |-> 0]

NewRules(s) ==
    [settings |-> s,
     playerScore |-> 0, aiScore |-> 0,
     possession |-> "player", needsCheckBall |-> FALSE,
     shotClock |-> s.shotClockDuration, shotClockActive |-> FALSE,
     gameState |-> "checkBall",
     stats |-> NewStats]

resetShotClock(r) == [r EXCEPT !.shotClock = r.settings.shotClockDuration]

changePossession(r, newPossession) ==
    resetShotClock([r EXCEPT !.possession = newPossession,
                             !.needsCheckBall = TRUE])

handleShotClockViolation(r) ==
    LET r1 == changePossession(r, Other(r.possession))
    IN  [r1 EXCEPT !.gameState = "checkBall", !.shotClockActive = FALSE]

\* the clock is running: update is in the one state in which it counts
ClockRuns(r) == r.shotClockActive /\ r.gameState = "liveBall"

\* update with the gameState test of line 56 dropped
RulesUpdateInAnyState(r, dt) ==
    IF r.shotClockActive
    THEN LET r1 == [r EXCEPT !.shotClock = Minus(r.shotClock, dt)]
         IN  IF r1.shotClock <= 0 THEN handleShotClockViolation(r1) ELSE r1
    ELSE r

RulesUpdate(r, dt) ==
    IF r.shotClockActive /\ r.gameState = "liveBall"
    THEN LET r1 == [r EXCEPT !.shotClock = Minus(r.shotClock, dt)]
         IN  IF r1.shotClock <= 0 THEN handleShotClockViolation(r1) ELSE r1
    ELSE r

\* the victory check without its branch for the AI's score (lines 93-95)
WinCheckForPlayerOnly(r) ==
    IF r.playerScore >= WIN_SCORE THEN [r EXCEPT !.gameState = "gameOver"]
    ELSE r

WinCheck(r) ==
    IF r.playerScore >= WIN_SCORE THEN [r EXCEPT !.gameState = "gameOver"]
    ELSE IF r.aiScore >= WIN_SCORE THEN [r EXCEPT !.gameState = "gameOver"]
    ELSE r

scorePoints(r, team, shotY) ==
    LET sys    == ScoringSystem(r.settings)
        points == IF isThreePoint(shotY) THEN sys.THREE_POINT ELSE sys.INSIDE
        r1 == IF team = "player"
              THEN [r EXCEPT !.playerScore = @ + points,
                             !.stats.playerMakes = @ + 1]
              ELSE [r EXCEPT !.aiScore = @ + points,
                             !.stats.aiMakes = @ + 1]
        r2 == changePossession(r1, team)
        r3 == [r2 EXCEPT !.needsCheckBall = TRUE,
                         !.gameState = "checkBall",
                         !.shotClockActive = FALSE]
    IN  WinCheck(r3)

startLiveBall(r) ==
    resetShotClock([r EXCEPT !.gameState = "liveBall",
                             !.needsCheckBall = FALSE,
                             !.shotClockActive = TRUE])

resetToCheckBall(r) ==
    resetShotClock([r EXCEPT !.gameState = "checkBall",
                             !.needsCheckBall = TRUE,
                             !.shotClockActive = FALSE])

handleFoul(r, foulOn) ==
    changePossession([r EXCEPT !.stats.fouls = @ + 1,
                               !.gameState = "freeThrow"], foulOn)

processFreeThrow(r, made) ==
    LET r1 == IF ~made THEN r
              ELSE IF r.possession = "player"
                   THEN [r EXCEPT !.playerScore = @ + FOUL_FREE_THROW_POINTS]
                   ELSE [r EXCEPT !.aiScore = @ + FOUL_FREE_THROW_POINTS]
        r2 == [r1 EXCEPT !.gameState = "checkBall", !.needsCheckBall = TRUE]
    IN  IF r2.playerScore >= WIN_SCORE \/ r2.aiScore >= WIN_SCORE
        THEN [r2 EXCEPT !.gameState = "gameOver"]
        ELSE r2

registerShotAttempt(r, team) ==
    IF team = "player"
    THEN [r EXCEPT !.stats.playerShots = @ + 1]
    ELSE [r EXCEPT !.stats.aiShots = @ + 1]

getWinner(r) ==
    IF r.gameState # "gameOver" THEN "none"
    ELSE IF r.playerScore >= WIN_SCORE THEN "player"
    ELSE IF r.aiScore >= WIN_SCORE THEN "ai"
    ELSE "none"

RulesReset(r) ==
    resetShotClock([r EXCEPT !.playerScore = 0, !.aiScore = 0,
                             !.possession = "player",
                             !.needsCheckBall = TRUE,
                             !.gameState = "checkBall",
                             !.shotClockActive = FALSE,
                             !.stats = NewStats])

----------------------------------------------------------------------------
(* Physics *)

checkPlayerCollision(p1, p2) == distance(p1.y, p2.y) < 2 * PLAYER_RADIUS

\* the push each Player receives: half the overlap, away from the other
CollisionPush(p1, p2) ==
    LET dist == distance(p1.y, p2.y)
    IN  IF dist < 2 * PLAYER_RADIUS /\ dist > 0
        THEN (2 * PLAYER_RADIUS - dist) \div 2
        ELSE 0

\* the clamp without its lower limit (line 61 dropped)
clampToCourtBoundsAbove(p) ==
    [p EXCEPT !.y = Min(COURT_LENGTH - PLAYER_RADIUS, p.y)]

clampToCourtBounds(p) ==
    [p EXCEPT !.y = Max(PLAYER_RADIUS, Min(COURT_LENGTH - PLAYER_RADIUS, p.y))]

checkRimCollision(y, z) ==
    /\ Abs(z - RIM_HEIGHT) <= RIM_TOLERANCE_Z
    /\ distance(y, rimY) <= RIM_RADIUS + MAGNETIC_WINDOW

checkBackboardCollision(y, z) ==
    /\ y >= rimY - 10 /\ y <= rimY + 10
    /\ z >= RIM_HEIGHT /\ z <= RIM_HEIGHT + BACKBOARD_HEIGHT

calculateOptimalShotPower(dist) == SHOT_BASE_SPEED + dist \div 2

----------------------------------------------------------------------------
(* Ball *)

\* attachTo with the reset of hasScored (line 57) dropped
attachToKeepingScored(b, playerId, y) ==
    [b EXCEPT !.state = "held", !.holderId = playerId, !.y = y,
              !.z = HOLD_HEIGHT, !.vy = 0, !.vz = 0,
              !.isOutOfBounds = FALSE]

attachTo(b, playerId, y) ==
    [b EXCEPT !.state = "held", !.holderId = playerId, !.y = y,
              !.z = HOLD_HEIGHT, !.vy = 0, !.vz = 0,
              !.hasScored = FALSE, !.isOutOfBounds = FALSE]

release(b, vy, vz) ==
    [b EXCEPT !.state = "inFlight", !.vy = vy, !.vz = vz,
              !.hasScored = FALSE]

checkBounds(b) ==
    IF b.y < -OUT_OF_BOUNDS_MARGIN \/ b.y > COURT_LENGTH + OUT_OF_BOUNDS_MARGIN
    THEN [b EXCEPT !.isOutOfBounds = TRUE]
    ELSE b

\* gravity, position, air friction
BallIntegrate(b) ==
    [b EXCEPT !.vz = b.vz - GRAVITY,
              !.y = b.y + b.vy,
              !.z = b.z + (b.vz - GRAVITY),
              !.vy = Scale(b.vy, FRICTION_AIR_STEP, 100)]

\* a ground that gives the ball all of its speed back and never lets it rest
BallGroundElastic(b) ==
    IF b.z <= BALL_RADIUS_Z
    THEN [b EXCEPT !.z = BALL_RADIUS_Z, !.vz = -b.vz, !.vy = 0]
    ELSE b

BallGround(b) ==
    IF b.z <= BALL_RADIUS_Z
    THEN LET vz1 == Scale(-b.vz, BOUNCE_FACTOR, 100)
         IN  IF Abs(vz1) < REST_SPEED_Z
             THEN [b EXCEPT !.z = BALL_RADIUS_Z, !.vz = 0, !.vy = 0,
                            !.state = "free"]
             ELSE [b EXCEPT !.z = BALL_RADIUS_Z, !.vz = vz1, !.vy = 0]
    ELSE b

BallRim(b) ==
    IF b.state = "inFlight" /\ b.vz < 0 /\ ~b.hasScored
       /\ checkRimCollision(b.y, b.z)
    THEN [b EXCEPT !.hasScored = TRUE, !.vz = Scale(b.vz, 7, 10)]
    ELSE b

BallBackboard(b) ==
    IF b.state = "inFlight" /\ checkBackboardCollision(b.y, b.z)
    THEN [b EXCEPT !.vy = Scale(-b.vy, 6, 10), !.vz = Scale(b.vz, 8, 10)]
    ELSE b

BallUpdate(b) ==
    IF b.state = "held"
    THEN [b EXCEPT !.z = HOLD_HEIGHT]
    ELSE checkBounds(BallBackboard(BallRim(BallGround(BallIntegrate(b)))))

isScore(b) == b.hasScored /\ b.z < RIM_HEIGHT

----------------------------------------------------------------------------
(* Player *)

NewPlayer(y) ==
    [y |-> y, vy |-> 0, hasBall |-> FALSE,
     shotCharging |-> FALSE, shotPower |-> 0,
     stealCooldown |-> 0, stepBackCooldown |-> 0, invulnerableTime |-> 0]

PlayerUpdate(p, dt) ==
    [p EXCEPT !.stealCooldown = Max(0, p.stealCooldown - dt),
              !.stepBackCooldown = Max(0, p.stepBackCooldown - dt),
              !.invulnerableTime = Max(0, p.invulnerableTime - dt),
              !.y = p.y + p.vy]

\* what friction leaves of a velocity once the step is over
PlayerRest(p) == [p EXCEPT !.vy = 0]

applyMovement(p, dir) ==
    [p EXCEPT !.vy = Max(-WalkStep, Min(WalkStep, p.vy + dir * WalkStep))]

\* speed > 0.5 m/s
IsMoving(p) == p.vy # 0

startShot(p) ==
    IF ~p.hasBall THEN p
    ELSE [p EXCEPT !.shotCharging = TRUE, !.shotPower = 0]

chargeShot(p, dt) ==
    IF ~p.shotCharging THEN p
    ELSE [p EXCEPT !.shotPower =
            Max(MIN_SHOT_POWER,
                Min(MAX_SHOT_POWER, p.shotPower + (POWER_CHARGE_RATE * dt) \div 1000))]

\* executeShot returns null in this case
ShotRefused(p) == ~p.shotCharging \/ ~p.hasBall

\* the launch velocity along the court executeShot computes, per step
ShotVy(p) ==
    LET horizontalSpeed ==
            (p.shotPower * calculateOptimalShotPower(distance(p.y, rimY))) \div 1000
        perStep == (horizontalSpeed * DT) \div 1000
    IN  IF p.y > rimY THEN -perStep
        ELSE IF p.y < rimY THEN perStep
        ELSE 0

\* shotPower is not read again before startShot zeroes it: the model
\* zeroes it here
executeShot(p) ==
    [p EXCEPT !.shotCharging = FALSE, !.hasBall = FALSE, !.shotPower = 0]

\* a step back that is taken whatever the cooldown (line 490 dropped)
performStepBackOnCooldown(p) ==
    [p EXCEPT !.stepBackCooldown = STEPBACK_COOLDOWN,
              !.invulnerableTime = STEPBACK_INVULN_TIME]

\* the 1.5 m the accepted step moves the Player against its facing is not
\* modelled (the world record has no facing)
performStepBack(p) ==
    IF p.stepBackCooldown > 0 THEN p
    ELSE [p EXCEPT !.stepBackCooldown = STEPBACK_COOLDOWN,
                   !.invulnerableTime = STEPBACK_INVULN_TIME]

\* attemptSteal gets as far as arming the cooldown
StealArmed(p, target) ==
    /\ p.stealCooldown = 0
    /\ target.hasBall
    /\ target.invulnerableTime = 0
    /\ distance(p.y, target.y) <= 3 * PLAYER_RADIUS

\* the draw against successChance = 0.3 * (1 - dist / (3 * RADIUS))
StealSucceeds(p, target, luck) ==
    StealArmed(p, target) /\ luck /\ distance(p.y, target.y) < 3 * PLAYER_RADIUS

\* a steal without the distance check (lines 516-518 dropped)
attemptStealAtAnyDistance(p, target) ==
    IF p.stealCooldown = 0 /\ target.hasBall /\ target.invulnerableTime = 0
    THEN [p EXCEPT !.stealCooldown = STEAL_COOLDOWN]
    ELSE p

attemptSteal(p, target) ==
    IF StealArmed(p, target)
    THEN [p EXCEPT !.stealCooldown = STEAL_COOLDOWN]
    ELSE p

----------------------------------------------------------------------------
(* The world: the objects a GameScene owns, as one record                  *)
(*   rules, player, ai, ball : the Rules, the two Players and the Ball     *)
(*   gs  : the scene's own fields, the name of the active scene and the    *)
(*         InputManager's pointer.rightJustPressed                         *)
(*   aic : the AIController                                                *)
(*   obs : history kept for the properties (never read by the program)     *)
(*         shooter  - who released the ball last                           *)
(*         credited - the team scorePoints credited in this step           *)
(*         credits  - baskets credited since the last release              *)
(*         event    - what the orchestrator did in this step               *)
(*         holder   - the side that event took the ball from               *)
(*         inputRan - handlePlayerInput ran in this step                   *)
(*         worth    - the points for a basket from the spot the shooter    *)
(*                    released the ball at; 0 once the ball is held again  *)
(*         applied  - this step's input, movement, clamping and ball       *)
(*                    physics have been applied                            *)
(*         early    - in this step the shot clock or the ball was tested   *)
(*                    before that                                          *)
(*         waited   - the time handleCheckBall has run since gameState     *)
(*                    became checkBall, up to CHECK_BALL_DELAY             *)
(*         decided  - makeDecision ran in the AIController's last update   *)
(*         since    - the time the AIController was updated for since its  *)
(*                    last decision, up to DECISION_DELAY; NoTimer before  *)
(*                    its first decision                                   *)
(*         gap      - the value of since when the last decision was taken  *)
(*         resets, shots, baskets - the presses of KeyR, the human's       *)
(*                    releases and the credited baskets so far             *)

Sign(n) == IF n > 0 THEN 1 ELSE IF n < 0 THEN -1 ELSE 0

\* the ball's position is within the extents checkBounds allows
InsideCourt(y) ==
    y >= -OUT_OF_BOUNDS_MARGIN /\ y <= COURT_LENGTH + OUT_OF_BOUNDS_MARGIN

\* a release by team: the ball leaves with the launch velocity of p
Launch(w, team, p) ==
    [w EXCEPT !.ball = release(w.ball, ShotVy(p), LAUNCH_VZ),
              !.obs.shooter = team,
              !.obs.worth = IF isThreePoint(p.y)
                            THEN ScoringSystem(w.rules.settings).THREE_POINT
                            ELSE ScoringSystem(w.rules.settings).INSIDE,
              !.obs.credits = 0]

----------------------------------------------------------------------------
(* AIController *)

NewAIController(y) == [state |-> "idle", decisionTimer |-> 0, targetY |-> y]

calculateOptimalPowerForDistance(dist) ==
    LET normalized == (calculateOptimalShotPower(dist) * 1000) \div (SHOT_BASE_SPEED + 350)
    IN  Min((normalized * SHOT_ACCURACY) \div 100, MAX_SHOT_POWER)

\* chooseProbeTarget: 1.5 m toward the rim (the angle offsets leave the axis)
chooseProbeTarget(y) == y + Sign(rimY - y) * 150

decideOffense(w, coin) ==
    LET distToRim == distance(w.ai.y, rimY)
        distToOpponent == distance(w.ai.y, w.player.y)
        isOpen == distToOpponent > CONTEST_DISTANCE
        inRange == distToRim < 700
    IN  IF w.rules.shotClock < FORCE_SHOT_TIME
        THEN [w EXCEPT !.aic.state = "shoot"]
        ELSE IF distToRim < 200 /\ distToOpponent > 150
        THEN [w EXCEPT !.aic.state = "layup"]
        ELSE IF isOpen /\ inRange /\ coin
        THEN [w EXCEPT !.aic.state = "shoot"]
        ELSE IF distToRim > 300
        THEN [w EXCEPT !.aic.state = "attack_drive", !.aic.targetY = rimY + 200]
        ELSE [w EXCEPT !.aic.state = "attack_probe",
                       !.aic.targetY = chooseProbeTarget(w.ai.y)]

decideDefense(w) ==
    LET distToOpponent == distance(w.ai.y, w.player.y)
    IN  IF w.ball.state = "free"
        THEN [w EXCEPT !.aic.state = "rebound", !.aic.targetY = w.ball.y]
        ELSE IF w.player.hasBall
        THEN IF w.player.shotCharging
             THEN [w EXCEPT !.aic.state = "defend_contest",
                            !.aic.targetY = w.player.y]
             ELSE IF distToOpponent > DEFENSE_PRESS_DISTANCE
             THEN [w EXCEPT !.aic.state = "defend_press",
                            !.aic.targetY = w.player.y]
             ELSE [w EXCEPT !.aic.state = "defend_press",
                            !.aic.targetY = w.player.y + Sign(rimY - w.player.y) * 120]
        ELSE w

makeDecision(w, coin) ==
    LET w1 == IF w.ai.hasBall THEN decideOffense(w, coin) ELSE decideDefense(w)
    IN  [w1 EXCEPT !.obs.decided = TRUE, !.obs.gap = w.obs.since,
                   !.obs.since = 0]

moveToTarget(w) ==
    IF distance(w.ai.y, w.aic.targetY) < 50 THEN w
    ELSE [w EXCEPT !.ai = applyMovement(w.ai, Sign(w.aic.targetY - w.ai.y))]

executeShoot(w) ==
    IF ~w.ai.hasBall THEN [w EXCEPT !.aic.state = "idle"]
    ELSE LET a1 == IF ~w.ai.shotCharging THEN startShot(w.ai) ELSE w.ai
             optimalPower == calculateOptimalPowerForDistance(distance(a1.y, rimY))
             a2 == chargeShot(a1, DT)
         IN  IF a2.shotPower >= optimalPower - 100 /\ ~ShotRefused(a2)
             THEN [Launch(w, "ai", a2) EXCEPT !.ai = executeShot(a2),
                                              !.aic.state = "idle"]
             ELSE [w EXCEPT !.ai = a2]

executeLayup(w) ==
    IF ~w.ai.hasBall THEN [w EXCEPT !.aic.state = "idle"]
    ELSE LET w1 == moveToTarget([w EXCEPT !.aic.targetY = rimY + 50])
         IN  IF distance(w1.ai.y, rimY) < 150
             THEN LET a1 == [startShot(w1.ai) EXCEPT !.shotPower = 600]
                  IN  IF ShotRefused(a1) THEN [w1 EXCEPT !.ai = a1]
                      ELSE [Launch(w1, "ai", a1) EXCEPT !.ai = executeShot(a1),
                                                        !.aic.state = "idle"]
             ELSE w1

executeState(w) ==
    IF w.aic.state \in {"attack_drive", "attack_probe", "defend_press",
                        "defend_contest", "rebound"}
    THEN moveToTarget(w)
    ELSE IF w.aic.state = "shoot" THEN executeShoot(w)
    ELSE IF w.aic.state = "layup" THEN executeLayup(w)
    ELSE w

\* update as it would be if a decision were taken on every tick
AIUpdateDecidingEveryTick(w, dt, coin) ==
    LET w1 == [w EXCEPT !.aic.decisionTimer = w.aic.decisionTimer - dt,
                        !.obs.decided = FALSE,
                        !.obs.since = IF @ = NoTimer THEN NoTimer
                                      ELSE Min(DECISION_DELAY, @ + dt)]
    IN  executeState([makeDecision(w1, coin) EXCEPT
                          !.aic.decisionTimer = DECISION_DELAY])

AIUpdate(w, dt, coin) ==
    LET w1 == [w EXCEPT !.aic.decisionTimer = w.aic.decisionTimer - dt,
                        !.obs.decided = FALSE,
                        !.obs.since = IF @ = NoTimer THEN NoTimer
                                      ELSE Min(DECISION_DELAY, @ + dt)]
        w2 == IF w1.aic.decisionTimer <= 0
              THEN [makeDecision(w1, coin) EXCEPT !.aic.decisionTimer = DECISION_DELAY]
              ELSE w1
    IN  executeState(w2)

----------------------------------------------------------------------------
(* GameScene *)

CHECK_Y == FREE_THROW_DISTANCE + BACKBOARD_DISTANCE

\* setupInitialPositions with the clearing of both flags (lines 401-402)
\* dropped
setupInitialPositionsKeepingFlags(w) ==
    IF w.rules.possession = "player"
    THEN [w EXCEPT !.player.y = CHECK_Y + 200,
                   !.ai.y = CHECK_Y - 200,
                   !.player.hasBall = TRUE,
                   !.ball = attachTo(w.ball, "player", CHECK_Y + 200)]
    ELSE [w EXCEPT !.ai.y = CHECK_Y + 200,
                   !.player.y = CHECK_Y - 200,
                   !.ai.hasBall = TRUE,
                   !.ball = attachTo(w.ball, "ai", CHECK_Y + 200)]

setupInitialPositions(w) ==
    IF w.rules.possession = "player"
    THEN [w EXCEPT !.player.y = CHECK_Y + 200,
                   !.ai.y = CHECK_Y - 200,
                   !.player.hasBall = TRUE,
                   !.ai.hasBall = FALSE,
                   !.ball = attachTo(w.ball, "player", CHECK_Y + 200)]
    ELSE [w EXCEPT !.ai.y = CHECK_Y + 200,
                   !.player.y = CHECK_Y - 200,
                   !.ai.hasBall = TRUE,
                   !.player.hasBall = FALSE,
                   !.ball = attachTo(w.ball, "ai", CHECK_Y + 200)]

\* the shot part of handlePlayerInput (left button)
PlayerShotInput(w, in) ==
    IF ~w.player.hasBall THEN w
    ELSE LET p1 == IF in.isDown /\ ~w.player.shotCharging
                   THEN startShot(w.player) ELSE w.player
         IN  IF ~p1.shotCharging THEN [w EXCEPT !.player = p1]
             ELSE IF in.isDown
             THEN [w EXCEPT !.player = chargeShot(p1, DT)]
             ELSE IF ShotRefused(p1) THEN [w EXCEPT !.player = p1]
             ELSE [Launch(w, "player", p1) EXCEPT
                       !.rules = registerShotAttempt(w.rules, "player"),
                       !.player = executeShot(p1),
                       !.obs.shots = @ + 1]

\* the right-button part of handlePlayerInput: step back or steal
PlayerRightInput(w, in) ==
    IF ~in.rightJustPressed THEN w
    ELSE IF w.player.hasBall
    THEN [w EXCEPT !.player = performStepBack(w.player)]
    ELSE IF StealSucceeds(w.player, w.ai, in.luck)
    THEN [w EXCEPT !.player = [attemptSteal(w.player, w.ai) EXCEPT !.hasBall = TRUE],
                   !.ai.hasBall = FALSE,
                   !.ball.state = "held",
                   !.ball.holderId = "player"]
    ELSE [w EXCEPT !.player = attemptSteal(w.player, w.ai)]

handlePlayerInput(w, in) ==
    LET w1 == IF in.dir # 0
              THEN [w EXCEPT !.player = applyMovement(w.player, in.dir)]
              ELSE w
    IN  [PlayerRightInput(PlayerShotInput(w1, in), in) EXCEPT
             !.obs.inputRan = TRUE]

updateBallPosition(w) ==
    IF w.player.hasBall /\ w.ball.state = "held"
    THEN [w EXCEPT !.ball.y = w.player.y]
    ELSE IF w.ai.hasBall /\ w.ball.state = "held"
    THEN [w EXCEPT !.ball.y = w.ai.y]
    ELSE IF w.player.hasBall /\ w.ball.state # "held"
    THEN [w EXCEPT !.ball = attachTo(w.ball, "player", w.player.y)]
    ELSE IF w.ai.hasBall /\ w.ball.state # "held"
    THEN [w EXCEPT !.ball = attachTo(w.ball, "ai", w.ai.y)]
    ELSE w

\* a test on the ball or on the shot clock is made at this point of the step
Evaluated(w) == [w EXCEPT !.obs.early = @ \/ ~w.obs.applied]

\* a pickup with the assignment of ball.holderId (lines 729, 754) dropped
PickupByKeepingHolder(w, team) ==
    LET me == IF team = "player" THEN w.player ELSE w.ai
    IN  IF distance(w.ball.y, me.y) < 3 * PLAYER_RADIUS
        THEN [w EXCEPT !.player.hasBall = (team = "player"),
                       !.ai.hasBall = (team = "ai"),
                       !.ball.state = "held",
                       !.ball.isOutOfBounds = FALSE,
                       !.obs.event = "pickup",
                       !.rules = IF w.rules.possession # team
                                 THEN changePossession(w.rules, team)
                                 ELSE w.rules]
        ELSE w

\* a pickup that leaves Rules.possession as it was
PickupByKeepingPossession(w, team) ==
    LET me == IF team = "player" THEN w.player ELSE w.ai
    IN  IF distance(w.ball.y, me.y) < 3 * PLAYER_RADIUS
        THEN [w EXCEPT !.player.hasBall = (team = "player"),
                       !.ai.hasBall = (team = "ai"),
                       !.ball.state = "held",
                       !.ball.holderId = team,
                       !.ball.isOutOfBounds = FALSE,
                       !.obs.event = "pickup"]
        ELSE w

\* a pickup with the clearing of isOutOfBounds (lines 730, 755) dropped
PickupByKeepingOutOfBounds(w, team) ==
    LET me == IF team = "player" THEN w.player ELSE w.ai
    IN  IF distance(w.ball.y, me.y) < 3 * PLAYER_RADIUS
        THEN [w EXCEPT !.player.hasBall = (team = "player"),
                       !.ai.hasBall = (team = "ai"),
                       !.ball.state = "held",
                       !.ball.holderId = team,
                       !.obs.event = "pickup",
                       !.rules = IF w.rules.possession # team
                                 THEN changePossession(w.rules, team)
                                 ELSE w.rules]
        ELSE w

\* one side's half of handleBallPickup
PickupBy(w, team) ==
    LET me == IF team = "player" THEN w.player ELSE w.ai
    IN  IF distance(w.ball.y, me.y) < 3 * PLAYER_RADIUS
        THEN [w EXCEPT !.player.hasBall = (team = "player"),
                       !.ai.hasBall = (team = "ai"),
                       !.ball.state = "held",
                       !.ball.holderId = team,
                       !.ball.isOutOfBounds = FALSE,
                       !.obs.event = "pickup",
                       !.rules = IF w.rules.possession # team
                                 THEN changePossession(w.rules, team)
                                 ELSE w.rules]
        ELSE w

handleBallPickup(w) == PickupBy(PickupBy(w, "player"), "ai")

\* player.update, ai.update and the clamps, with or without the collision
MovePlayers(w, collide) ==
    LET p1 == PlayerUpdate(w.player, DT)
        a1 == PlayerUpdate(w.ai, DT)
        push == IF collide /\ checkPlayerCollision(p1, a1)
                THEN CollisionPush(p1, a1) ELSE 0
        n == Sign(a1.y - p1.y)
    IN  [w EXCEPT !.player = clampToCourtBounds([p1 EXCEPT !.y = p1.y - n * push]),
                  !.ai = clampToCourtBounds([a1 EXCEPT !.y = a1.y + n * push])]

\* the end of check ball: the holder moved, or the AI's delay ran out
CheckBallStart(w) ==
    IF w.rules.possession = "player" /\ w.player.hasBall
    THEN IF IsMoving(w.player)
         THEN [w EXCEPT !.rules = startLiveBall(w.rules)]
         ELSE w
    ELSE IF w.rules.possession = "ai" /\ w.ai.hasBall
    THEN LET t0 == IF w.gs.checkBallTimer = NoTimer
                   THEN CHECK_BALL_DELAY ELSE w.gs.checkBallTimer
             t1 == t0 - DT
         IN  IF t1 <= 0
             THEN [w EXCEPT !.rules = startLiveBall(w.rules),
                            !.gs.checkBallTimer = NoTimer]
             ELSE [w EXCEPT !.gs.checkBallTimer = t1]
    ELSE w

\* a check ball in which only the side in possession is given its input
handleCheckBallForPossessor(w, in) ==
    LET w1 == IF w.rules.possession = "player"
              THEN handlePlayerInput(w, in)
              ELSE [w EXCEPT !.obs.waited = Min(CHECK_BALL_DELAY, @ + DT)]
        w2 == IF w1.rules.possession = "ai"
              THEN AIUpdate(w1, DT, in.coin)
              ELSE IF distance(w1.ai.y, BACKBOARD_DISTANCE + 300) > 50
              THEN [w1 EXCEPT !.ai = applyMovement(w1.ai,
                                  Sign(BACKBOARD_DISTANCE + 300 - w1.ai.y))]
              ELSE w1
        w3 == CheckBallStart(MovePlayers(w2, FALSE))
        w4 == updateBallPosition(w3)
        w5 == Evaluated([w4 EXCEPT !.ball = BallUpdate(w4.ball),
                                   !.obs.applied = TRUE])
    IN  IF w5.ball.state = "free" THEN handleBallPickup(w5) ELSE w5

handleCheckBall(w, in) ==
    LET w1 == handlePlayerInput(
                  [w EXCEPT !.obs.waited = Min(CHECK_BALL_DELAY, @ + DT)], in)
        w2 == IF w1.rules.possession = "ai"
              THEN AIUpdate(w1, DT, in.coin)
              ELSE IF distance(w1.ai.y, BACKBOARD_DISTANCE + 300) > 50
              THEN [w1 EXCEPT !.ai = applyMovement(w1.ai,
                                  Sign(BACKBOARD_DISTANCE + 300 - w1.ai.y))]
              ELSE w1
        w3 == CheckBallStart(MovePlayers(w2, FALSE))
        w4 == updateBallPosition(w3)
        w5 == Evaluated([w4 EXCEPT !.ball = BallUpdate(w4.ball),
                                   !.obs.applied = TRUE])
    IN  IF w5.ball.state = "free" THEN handleBallPickup(w5) ELSE w5

\* the recovery of a ball that stayed out of bounds for the whole delay
OutOfBoundsRecovery(w) ==
    LET lastPossession == IF w.ball.holderId # "none"
                          THEN w.ball.holderId ELSE w.rules.possession
        w1 == [w EXCEPT !.rules = changePossession(w.rules, Other(lastPossession)),
                        !.gs.outOfBoundsTimer = NoTimer,
                        !.obs.event = "recovery",
                        !.obs.holder = lastPossession]
    IN  setupInitialPositions(w1)

\* the basket: credit, reset
ScoreReset(w) ==
    LET shooter == IF w.ball.holderId # "none" THEN w.ball.holderId
                   ELSE IF w.player.hasBall THEN "player" ELSE "ai"
        shooterEntity == IF shooter = "player" THEN w.player ELSE w.ai
        w1 == [w EXCEPT !.rules = scorePoints(w.rules, shooter, shooterEntity.y),
                        !.gs.outOfBoundsTimer = NoTimer,
                        !.obs.credited = shooter,
                        !.obs.credits = Min(2, w.obs.credits + 1),
                        !.obs.baskets = @ + 1,
                        !.obs.event = "score"]
    IN  setupInitialPositions(w1)

\* handleLiveBall from the out-of-bounds check on, without the branch that
\* clears outOfBoundsTimer for a ball that is not flagged (lines 560-565)
LiveBallAfterMoveKeepingTimer(w) ==
    LET expired == /\ w.ball.isOutOfBounds
                   /\ w.gs.outOfBoundsTimer # NoTimer
                   /\ w.gs.outOfBoundsTimer - DT <= 0
        w1 == IF w.ball.isOutOfBounds
              THEN IF w.gs.outOfBoundsTimer = NoTimer
                   THEN [w EXCEPT !.gs.outOfBoundsTimer = OUT_OF_BOUNDS_DELAY]
                   ELSE [w EXCEPT !.gs.outOfBoundsTimer = w.gs.outOfBoundsTimer - DT]
              ELSE w
    IN  IF expired THEN OutOfBoundsRecovery(w1)
        ELSE IF isScore(w1.ball) THEN ScoreReset(w1)
        ELSE IF w1.ball.state = "free" THEN handleBallPickup(w1)
        ELSE w1

\* handleLiveBall from the out-of-bounds check on
LiveBallAfterMove(w) ==
    LET expired == /\ w.ball.isOutOfBounds
                   /\ w.gs.outOfBoundsTimer # NoTimer
                   /\ w.gs.outOfBoundsTimer - DT <= 0
        w1 == IF w.ball.isOutOfBounds
              THEN IF w.gs.outOfBoundsTimer = NoTimer
                   THEN [w EXCEPT !.gs.outOfBoundsTimer = OUT_OF_BOUNDS_DELAY]
                   ELSE [w EXCEPT !.gs.outOfBoundsTimer = w.gs.outOfBoundsTimer - DT]
              ELSE IF w.gs.outOfBoundsTimer # NoTimer
              THEN [w EXCEPT !.gs.outOfBoundsTimer = NoTimer,
                             !.obs.event = "cancel"]
              ELSE w
    IN  IF expired THEN OutOfBoundsRecovery(w1)
        ELSE IF isScore(w1.ball) THEN ScoreReset(w1)
        ELSE IF w1.ball.state = "free" THEN handleBallPickup(w1)
        ELSE w1

handleLiveBall(w, in) ==
    LET w1 == handlePlayerInput(w, in)
        w2 == AIUpdate(w1, DT, in.coin)
        w3 == updateBallPosition(MovePlayers(w2, TRUE))
        w4 == [w3 EXCEPT !.ball = BallUpdate(w3.ball), !.obs.applied = TRUE]
    IN  LiveBallAfterMove(Evaluated(w4))

\* GameScene.update while the match is not over
UpdateRunning(w, in) ==
    LET prevState == w.rules.gameState
        r1 == RulesUpdate(w.rules, DT)
        violation == prevState = "liveBall" /\ r1.gameState = "checkBall"
        w0 == IF ClockRuns(w.rules) THEN Evaluated(w) ELSE w
        w1 == IF violation
              THEN setupInitialPositions(
                       [w0 EXCEPT !.rules = r1,
                                  !.obs.event = "violation",
                                  !.obs.holder = w.rules.possession])
              ELSE [w0 EXCEPT !.rules = r1]
        w2 == IF w1.rules.gameState = "checkBall" THEN handleCheckBall(w1, in)
              ELSE IF w1.rules.gameState = "liveBall" THEN handleLiveBall(w1, in)
              ELSE w1
    IN  [w2 EXCEPT !.player = PlayerRest(w2.player), !.ai = PlayerRest(w2.ai)]

GameSceneUpdate(w, in) ==
    LET w0 == [w EXCEPT !.obs.credited = "none", !.obs.event = "none",
                        !.obs.holder = "none", !.obs.inputRan = FALSE,
                        !.obs.worth = IF w.ball.state = "held" THEN 0 ELSE @,
                        !.obs.applied = FALSE, !.obs.early = FALSE,
                        !.obs.waited = IF w.rules.gameState = "checkBall"
                                       THEN @ ELSE 0]
    IN  IF w0.rules.gameState = "gameOver"
        THEN [w0 EXCEPT !.gs.scene = "gameover", !.obs.event = "switch"]
        ELSE UpdateRunning(w0, in)

\* the keydown handler for KeyR: the manual reset
handlePauseKeyR(w) ==
    LET lastPossession ==
            IF w.player.hasBall THEN "player"
            ELSE IF w.ai.hasBall THEN "ai"
            ELSE IF w.ball.holderId # "none" THEN w.ball.holderId
            ELSE IF w.ball.state = "held"
            THEN (IF distance(w.ball.y, w.player.y) < distance(w.ball.y, w.ai.y)
                  THEN "player" ELSE "ai")
            ELSE w.rules.possession
        currentPossession == Other(lastPossession)
        r1 == resetToCheckBall([w.rules EXCEPT !.possession = currentPossession])
        b1 == [w.ball EXCEPT !.vy = 0, !.vz = 0, !.isOutOfBounds = FALSE,
                             !.hasScored = FALSE]
        holderY == IF currentPossession = "player" THEN w.player.y ELSE w.ai.y
    IN  [w EXCEPT !.rules = r1,
                  !.player.hasBall = (currentPossession = "player"),
                  !.ai.hasBall = (currentPossession = "ai"),
                  !.player.vy = 0,
                  !.ai.vy = 0,
                  !.ball = attachTo(b1, currentPossession, holderY),
                  !.gs.checkBallTimer = NoTimer,
                  !.gs.outOfBoundsTimer = NoTimer,
                  !.obs.credited = "none",
                  !.obs.event = "manualReset",
                  !.obs.inputRan = FALSE,
                  !.obs.worth = 0,
                  !.obs.applied = FALSE,
                  !.obs.early = FALSE,
                  !.obs.waited = 0,
                  !.obs.holder = lastPossession]

\* GameScene.enter: a new match with the given settings
EnterGame(s) ==
    setupInitialPositions(
        [rules  |-> NewRules(s),
         player |-> NewPlayer((COURT_LENGTH * 7) \div 10),
         ai     |-> NewPlayer((COURT_LENGTH * 3) \div 10),
         ball   |-> [state |-> "free", holderId |-> "none", y |-> 0, z |-> 0,
                     vy |-> 0, vz |-> 0, hasScored |-> FALSE,
                     isOutOfBounds |-> FALSE],
         gs     |-> [scene |-> "game", outOfBoundsTimer |-> NoTimer,
                     checkBallTimer |-> NoTimer, rightJustPressed |-> FALSE],
         aic    |-> NewAIController((COURT_LENGTH * 3) \div 10),
         obs    |-> [shooter |-> "none", credited |-> "none", credits |-> 0,
                     event |-> "none", holder |-> "none", inputRan |-> FALSE,
                     worth |-> 0, applied |-> FALSE, early |-> FALSE,
                     waited |-> 0, decided |-> FALSE,
                     since |-> NoTimer, gap |-> NoTimer,
                     resets |-> 0, shots |-> 0, baskets |-> 0,
                     facing |-> 0]])

----------------------------------------------------------------------------
(* The program driven at the GameScene's interface *)

World == [rules |-> rules, player |-> player, ai |-> ai, ball |-> ball,
          gs |-> gs, aic |-> aic, obs |-> obs]

Becomes(w) ==
    /\ rules' = w.rules
    /\ player' = w.player
    /\ ai' = w.ai
    /\ ball' = w.ball
    /\ gs' = w.gs
    /\ aic' = w.aic
    /\ obs' = w.obs

\* the settings a match is started with
SettingsChoices ==
    [shotClockDuration : {ShotClockShort, Infinity},
     scoringSystem : {"street"}]

\* InputManager.handlePointerDown for the right button
handlePointerDown(w) == [w EXCEPT !.gs.rightJustPressed = TRUE]

\* InputManager.update: the "just pressed" flags are cleared
InputManagerUpdate(w) == [w EXCEPT !.gs.rightJustPressed = FALSE]

\* Game.update: input.update() first, then the update of the current scene,
\* which reads pointer.rightJustPressed as input.update() left it
GameUpdate(w, in) ==
    LET w1 == InputManagerUpdate(w)
    IN  IF w1.gs.scene = "game"
        THEN GameSceneUpdate(w1, [in EXCEPT !.rightJustPressed =
                                                w1.gs.rightJustPressed])
        ELSE w1

\* what one step reads from the keys, the left button and the random
\* source; rightJustPressed is filled in by Game.update
Inputs ==
    [dir : {-1, 0, 1}, isDown : BOOLEAN, rightJustPressed : {FALSE},
     luck : {FALSE}, coin : BOOLEAN]

Starts(w) ==
    /\ rules = w.rules
    /\ player = w.player
    /\ ai = w.ai
    /\ ball = w.ball
    /\ gs = w.gs
    /\ aic = w.aic
    /\ obs = w.obs

\* the Rules after n more baskets from inside the arc by team; only the
\* human's shots are registered (handlePlayerInput), the AI's are not
RECURSIVE AfterBaskets(_, _, _)
AfterBaskets(r, team, n) ==
    IF n = 0 THEN r
    ELSE LET r1 == IF team = "player" THEN registerShotAttempt(r, team) ELSE r
         IN  AfterBaskets(scorePoints(r1, team, CHECK_Y), team, n - 1)

\* a match both sides are one basket from winning, at the check ball that
\* follows the AI's last basket
MatchPoint(s) ==
    LET w == EnterGame(s)
        r == AfterBaskets(AfterBaskets(w.rules, "player", WIN_SCORE - 1),
                          "ai", WIN_SCORE - 1)
    IN  setupInitialPositions(
            [w EXCEPT !.rules = r,
                      !.aic.decisionTimer = DECISION_DELAY])

Init ==
    \E s \in SettingsChoices :
        \/ Starts(EnterGame(s))
        \/ Starts(MatchPoint(s))

Tick ==
    /\ gs.scene = "game"
    /\ \E in \in Inputs :
          \E w \in {GameUpdate(World, in)} :
              /\ w.obs.shots <= MaxShots
              /\ w.obs.baskets <= MaxBaskets
              /\ in.dir # 0 => w.player.y >= WalkMin /\ w.player.y <= WalkMax
              /\ Becomes(w)

KeyR ==
    /\ gs.scene = "game"
    /\ obs.resets < MaxResets
    /\ \E w \in {handlePauseKeyR(World)} :
          Becomes([w EXCEPT !.obs.resets = @ + 1])

Next == Tick \/ KeyR

Spec == Init /\ [][Next]_vars

----------------------------------------------------------------------------
(* The Rules object driven at its own interface: any method, in any order. *)
(* Here obs records the method of the last call, the team and the dt it    *)
(* was given and the number of calls so far that add to a score or to the  *)
(* statistics.                                                             *)

MaxCalls == 3

RulesCall(r, op, team, dt, counted) ==
    /\ rules' = r
    /\ obs' = [event |-> op, team |-> team, dt |-> dt,
               calls |-> obs.calls + counted]
    /\ UNCHANGED <<player, ai, ball, gs, aic>>

RulesInit ==
    \E s \in SettingsChoices :
        \E w \in {EnterGame(s), MatchPoint(s)} :
            Starts([w EXCEPT !.obs = [event |-> "none", team |-> "none",
                                      dt |-> 0, calls |-> 0]])

CallUpdate ==
    \E dt \in {DT, 2 * DT} : RulesCall(RulesUpdate(rules, dt), "update", "none", dt, 0)

CallScorePoints ==
    /\ obs.calls < MaxCalls
    /\ \E team \in Teams : \E shotY \in {CHECK_Y, CHECK_Y + 200} :
          RulesCall(scorePoints(rules, team, shotY), "scorePoints", team, 0, 1)

CallChangePossession ==
    \E team \in Teams :
        RulesCall(changePossession(rules, team), "changePossession", team, 0, 0)

CallStartLiveBall == RulesCall(startLiveBall(rules), "startLiveBall", "none", 0, 0)

CallResetToCheckBall ==
    RulesCall(resetToCheckBall(rules), "resetToCheckBall", "none", 0, 0)

CallHandleFoul ==
    /\ obs.calls < MaxCalls
    /\ \E team \in Teams :
          RulesCall(handleFoul(rules, team), "handleFoul", team, 0, 1)

CallProcessFreeThrow ==
    /\ obs.calls < MaxCalls
    /\ \E made \in BOOLEAN :
          RulesCall(processFreeThrow(rules, made), "processFreeThrow", "none", 0, 1)

CallRegisterShotAttempt ==
    /\ obs.calls < MaxCalls
    /\ \E team \in Teams :
          RulesCall(registerShotAttempt(rules, team), "registerShotAttempt",
                    team, 0, 1)

CallReset == RulesCall(RulesReset(rules), "reset", "none", 0, 0)

RulesNext ==
    \/ CallUpdate
    \/ CallScorePoints
    \/ CallChangePossession
    \/ CallStartLiveBall
    \/ CallResetToCheckBall
    \/ CallHandleFoul
    \/ CallProcessFreeThrow
    \/ CallRegisterShotAttempt
    \/ CallReset

RulesSpec == RulesInit /\ [][RulesNext]_vars

----------------------------------------------------------------------------
(* A Player driven at its own interface: the operations of the shot, the   *)
(* step back and the steal called in any order on any Player. player is    *)
(* the Player called, ai the target of a steal; obs records the operation  *)
(* of the last call and what it returned.                                  *)

\* the Players the calls start from
PlayerChoices ==
    [y : {CHECK_Y - 200}, vy : {0}, hasBall : BOOLEAN,
     shotCharging : BOOLEAN, shotPower : {0, 600},
     stealCooldown : {0, STEAL_COOLDOWN},
     stepBackCooldown : {0, STEPBACK_COOLDOWN},
     invulnerableTime : {0, STEPBACK_INVULN_TIME}]

\* the targets: at the same spot, at exactly 3 * PLAYER_RADIUS and just
\* beyond it
TargetChoices ==
    [y : {CHECK_Y - 200, CHECK_Y - 200 + 3 * PLAYER_RADIUS,
          CHECK_Y - 199 + 3 * PLAYER_RADIUS},
     vy : {0}, hasBall : BOOLEAN, shotCharging : {FALSE}, shotPower : {0},
     stealCooldown : {0}, stepBackCooldown : {0},
     invulnerableTime : {0, STEPBACK_INVULN_TIME}]

PlayerInit ==
    \E s \in SettingsChoices : \E p \in PlayerChoices : \E t \in TargetChoices :
        Starts([EnterGame(s) EXCEPT !.player = p, !.ai = t,
                                    !.obs = [op |-> "none", result |-> "none"]])

PlayerCall(p, op, result) ==
    /\ player' = p
    /\ obs' = [op |-> op, result |-> result]
    /\ UNCHANGED <<rules, ai, ball, gs, aic>>

CallStartShot == PlayerCall(startShot(player), "startShot", "none")

CallChargeShot == PlayerCall(chargeShot(player, DT), "chargeShot", "none")

\* executeShot returns null when refused and the shot data otherwise
CallExecuteShot ==
    IF ShotRefused(player)
    THEN PlayerCall(player, "executeShot", "null")
    ELSE PlayerCall(executeShot(player), "executeShot", "shot")

\* performStepBack returns false when on cooldown and true otherwise
CallPerformStepBack ==
    PlayerCall(performStepBack(player), "performStepBack",
               IF player.stepBackCooldown > 0 THEN "false" ELSE "true")

\* attemptSteal returns the outcome of the random trial, false when refused
CallAttemptSteal ==
    \E luck \in BOOLEAN :
        PlayerCall(attemptSteal(player, ai), "attemptSteal",
                   IF StealSucceeds(player, ai, luck) THEN "true" ELSE "false")

CallPlayerUpdate == PlayerCall(PlayerUpdate(player, DT), "update", "none")

PlayerNext ==
    \/ CallStartShot
    \/ CallChargeShot
    \/ CallExecuteShot
    \/ CallPerformStepBack
    \/ CallAttemptSteal
    \/ CallPlayerUpdate

PlayerSpec == PlayerInit /\ [][PlayerNext]_vars

----------------------------------------------------------------------------
(* The GameLoop driven by the browser: start, stop and the frame callback. *)
(* Time is counted in units of 1/240 s. gs holds the loop's fields and the *)
(* time of the latest frame; obs records what the last frame callback did: *)
(* the calls it made in order and the accumulator that alpha is computed   *)
(* from (alpha = obs.left / FIXED_TIMESTEP).                               *)

\* CONFIG.PHYSICS, in units of 1/240 s
FIXED_TIMESTEP == 4
MAX_ACCUMULATOR == 16

\* the latest frame time considered, and how far performance.now() in
\* start() can be ahead of the time stamp of the frame whose callbacks run
\* next (a frame's time stamp is taken when the frame begins)
MaxTime == 24
MaxSkew == 2

\* the while loop of GameLoop.loop
RECURSIVE RunUpdates(_, _)
RunUpdates(accumulator, log) ==
    IF accumulator >= FIXED_TIMESTEP
    THEN RunUpdates(accumulator - FIXED_TIMESTEP, Append(log, "update"))
    ELSE [accumulator |-> accumulator, log |-> log]

LoopInit ==
    \E s \in SettingsChoices :
        Starts([EnterGame(s) EXCEPT
                   !.gs = [isRunning |-> FALSE, lastTime |-> 0,
                           accumulator |-> 0, clock |-> 0],
                   !.obs = [ran |-> FALSE, log |-> <<>>, left |-> 0]])

LoopBecomes(g, o) ==
    /\ gs' = g
    /\ obs' = o
    /\ UNCHANGED <<rules, player, ai, ball, aic>>

\* GameLoop.start at some time now, not before the latest frame began
LoopStart ==
    \E now \in gs.clock .. Min(MaxTime, gs.clock + MaxSkew) :
        IF gs.isRunning THEN LoopBecomes(gs, [obs EXCEPT !.ran = FALSE])
        ELSE LoopBecomes([gs EXCEPT !.isRunning = TRUE, !.lastTime = now,
                                    !.accumulator = 0],
                         [obs EXCEPT !.ran = FALSE])

LoopStop ==
    LoopBecomes([gs EXCEPT !.isRunning = FALSE], [obs EXCEPT !.ran = FALSE])

\* GameLoop.loop called with the time stamp of a frame
LoopFrame ==
    \E currentTime \in gs.clock .. MaxTime :
        IF ~gs.isRunning
        THEN LoopBecomes([gs EXCEPT !.clock = currentTime],
                         [obs EXCEPT !.ran = FALSE])
        ELSE LET deltaTime == Min(MAX_ACCUMULATOR, currentTime - gs.lastTime)
                 run == RunUpdates(gs.accumulator + deltaTime, <<>>)
             IN  LoopBecomes([gs EXCEPT !.clock = currentTime,
                                        !.lastTime = currentTime,
                                        !.accumulator = run.accumulator],
                             [ran |-> TRUE,
                              log |-> Append(run.log, "render"),
                              left |-> run.accumulator])

LoopNext == LoopStart \/ LoopStop \/ LoopFrame

LoopSpec == LoopInit /\ [][LoopNext]_vars

----------------------------------------------------------------------------
(* The session: the match together with the events that arrive between two *)
(* updates, a press of the right button and Escape, and the pause scene.   *)
(* The human walks and never shoots here.                                  *)

SessionInputs == {in \in Inputs : ~in.isDown /\ ~in.coin}

\* one Game.update, in the game scene or in the pause scene (whose update
\* does nothing)
SessionTick ==
    /\ gs.scene \in {"game", "pause"}
    /\ \E in \in SessionInputs :
          \E w \in {GameUpdate(World, in)} :
              /\ w.obs.shots <= MaxShots
              /\ w.obs.baskets <= MaxBaskets
              /\ in.dir # 0 => w.player.y >= WalkMin /\ w.player.y <= WalkMax
              /\ Becomes(w)

\* the right button goes down between two updates
PointerRightDown ==
    /\ gs.scene \in {"game", "pause"}
    /\ Becomes(handlePointerDown(World))

\* GameScene.handlePause for Escape: switchTo('pause') runs GameScene.exit
\* and PauseScene.enter, which keeps the settings to return with
KeyEscape ==
    /\ gs.scene = "game"
    /\ Becomes([World EXCEPT !.gs.scene = "pause", !.obs.event = "pause"])

\* the resume button or Escape in the pause scene: switchTo('game',
\* {settings}) runs GameScene.enter, which creates the entities and the
\* Rules again; checkBallTimer is not among the fields enter sets
ResumeGame ==
    /\ gs.scene = "pause"
    /\ \E w \in {EnterGame(rules.settings)} :
          Becomes([w EXCEPT !.gs.checkBallTimer = gs.checkBallTimer,
                            !.gs.rightJustPressed = gs.rightJustPressed,
                            !.obs = [obs EXCEPT !.event = "resume",
                                                !.credited = "none",
                                                !.holder = "none",
                                                !.inputRan = FALSE,
                                                !.worth = 0,
                                                !.applied = FALSE,
                                                !.early = FALSE,
                                                !.waited = 0]])

SessionNext == SessionTick \/ PointerRightDown \/ KeyEscape \/ ResumeGame

SessionSpec == Init /\ [][SessionNext]_vars

----------------------------------------------------------------------------
(* Properties *)

\* C1: in every state the orchestrator reaches, at most one of the two
\* Players has hasBall = TRUE
AtMostOneHasBall == ~(player.hasBall /\ ai.hasBall)

\* the shot clock ran out on the human and the ball went over to the AI
BallHandedOver ==
    /\ obs.event = "violation"
    /\ obs.holder = "player"
    /\ ai.hasBall
    /\ ~player.hasBall

\* C2: whenever the ball is held, exactly one Player has hasBall = TRUE and
\* ball.holderId is that Player's id
HeldBallHasItsHolder ==
    ball.state = "held" =>
        /\ player.hasBall # ai.hasBall
        /\ ball.holderId = (IF player.hasBall THEN "player" ELSE "ai")

\* the human picked up a free ball that the AI had released
PickedUpByTheOther ==
    /\ obs.event = "pickup"
    /\ obs.shooter = "ai"
    /\ ball.state = "held"
    /\ player.hasBall

\* C3: whenever scorePoints is called for a made basket, the credited team
\* is the side that released the ball on the flight that scored
ShooterIsCredited == obs.credited # "none" => obs.credited = obs.shooter

\* C4: scorePoints is called at most once between one release and the next,
\* and once a basket is credited isScore() is false until the next release
ScoredOncePerFlight ==
    /\ obs.credits <= 1
    /\ obs.credits = 1 => ~isScore(ball)

\* a basket was credited, and play is live again before any new release
LiveAgainAfterBasket ==
    /\ obs.credits = 1
    /\ obs.credited = "none"
    /\ rules.gameState = "liveBall"
    /\ ball.state = "held"

\* C5: gameState is gameOver if and only if one of the scores has reached
\* WIN_SCORE
GameOverIffWinScore ==
    rules.gameState = "gameOver" <=>
        (rules.playerScore >= WIN_SCORE \/ rules.aiScore >= WIN_SCORE)

\* C6: once gameState is gameOver it never takes another value, whatever
\* the orchestrator does next, a manual reset included
GameOverIsTerminal ==
    [][rules.gameState = "gameOver" => rules'.gameState = "gameOver"]_vars

\* C7: when the out-of-bounds delay runs out, possession goes to the side
\* that did not hold the ball last, gameState becomes checkBall and the ball
\* is attached to the new possessor
RecoveryEndsInCheckBall ==
    obs.event = "recovery" =>
        /\ rules.possession = Other(obs.holder)
        /\ rules.gameState = "checkBall"
        /\ ball.state = "held"
        /\ ball.holderId = rules.possession

\* C8: at the end of the tick in which the shot clock ran out on side p,
\* possession is the other side, gameState is checkBall, the clock is
\* stopped and back at its duration, and the ball is held by the new
\* possessor's Player while the other Player has hasBall = FALSE
ViolationEndsInCheckBall ==
    obs.event = "violation" =>
        /\ rules.possession = Other(obs.holder)
        /\ rules.gameState = "checkBall"
        /\ ~rules.shotClockActive
        /\ rules.shotClock = rules.settings.shotClockDuration
        /\ ball.state = "held"
        /\ ball.holderId = rules.possession
        /\ player.hasBall = (rules.possession = "player")
        /\ ai.hasBall = (rules.possession = "ai")

\* C9: update lowers shotClock only while the clock is running, and then by
\* exactly dt; otherwise update leaves it alone; every other change of
\* shotClock is a reset to the configured duration; changePossession always
\* resets it; an unlimited clock stays unlimited
ShotClockFrame ==
    [][/\ (obs'.event = "update" /\ rules'.shotClock < rules.shotClock) =>
              ClockRuns(rules) /\ rules'.shotClock = rules.shotClock - obs'.dt
       /\ (obs'.event = "update" /\ ~ClockRuns(rules)) =>
              rules'.shotClock = rules.shotClock
       /\ (obs'.event # "update" \/ rules'.shotClock > rules.shotClock) =>
              rules'.shotClock \in {rules.shotClock, rules.settings.shotClockDuration}
       /\ obs'.event = "changePossession" =>
              rules'.shotClock = rules.settings.shotClockDuration
       /\ rules.shotClock = Infinity => rules'.shotClock = Infinity
      ]_vars

\* update has just taken dt off a full clock
ClockLowered ==
    /\ obs.event = "update"
    /\ ClockRuns(rules)
    /\ rules.settings.shotClockDuration # Infinity
    /\ rules.shotClock = rules.settings.shotClockDuration - obs.dt

\* C10: for each Player, shotCharging implies hasBall
ChargingImpliesHasBall ==
    /\ player.shotCharging => player.hasBall
    /\ ai.shotCharging => ai.hasBall

\* C11: when a free ball is picked up, a Player within 2 * PLAYER_RADIUS of
\* it (positions are those the pickup was evaluated at: the pickup moves
\* neither the ball nor a Player) ends the tick with hasBall = TRUE, the
\* other Player with hasBall = FALSE and the ball held; for whichever Player
\* is that near
PickupGoesToTheNearPlayer ==
    obs.event = "pickup" =>
        /\ distance(ball.y, player.y) <= 2 * PLAYER_RADIUS =>
               player.hasBall /\ ~ai.hasBall /\ ball.state = "held"
        /\ distance(ball.y, ai.y) <= 2 * PLAYER_RADIUS =>
               ai.hasBall /\ ~player.hasBall /\ ball.state = "held"

\* C12: a press of the right button that arrived between two updates is
\* seen by the human's input handling of the next update: holding the ball
\* and off cooldown the human steps back (the step-back cooldown is armed),
\* without the ball a steal is attempted (the steal cooldown is armed when
\* the attempt is in reach of a holder who can be robbed)
RightPressIsHandled ==
    [][(/\ gs.rightJustPressed
        /\ ~gs'.rightJustPressed
        /\ gs.scene = "game"
        /\ rules.gameState \in {"checkBall", "liveBall"}
        /\ obs'.event # "violation"
        /\ ~player.shotCharging) =>
           IF player.hasBall
           THEN player.stepBackCooldown = 0 => player'.stepBackCooldown > 0
           ELSE StealArmed(player, ai) => player'.stealCooldown > 0
      ]_vars

\* C13: every update that starts in checkBall or in liveBall runs the
\* human's input handling, whoever has possession
HumanInputEveryTick ==
    [][(/\ gs.scene = "game"
        /\ rules.gameState \in {"checkBall", "liveBall"}
        /\ obs'.event # "manualReset") => obs'.inputRan
      ]_vars

\* the shot clock ran out on the human, the ball went to the AI, and in that
\* same update the human walked away from the defender's spot
HumanMovesAfterViolation ==
    /\ obs.event = "violation"
    /\ rules.possession = "ai"
    /\ rules.gameState = "checkBall"
    /\ obs.inputRan
    /\ player.y # CHECK_Y - 200

\* C14: rules.possession changes only through changePossession: only in a
\* step in which the orchestrator calls it, directly (a pickup, the recovery
\* of a ball out of bounds) or through scorePoints (a basket) or through
\* update (a shot-clock violation); the manual reset is not such a step
PossessionOnlyByChangePossession ==
    [][rules'.possession # rules.possession =>
           obs'.event \in {"pickup", "recovery", "score", "violation"}]_vars

\* C15: scorePoints(team, x, y) raises the score of team and of no one
\* else, adds one to the makes of team and to no other statistic, sets
\* possession to team and shotClockActive to FALSE, and leaves gameState at
\* gameOver if a score has reached WIN_SCORE and at checkBall otherwise
ScorePointsEffect ==
    [][obs'.event = "scorePoints" =>
           /\ IF obs'.team = "player"
              THEN /\ rules'.playerScore > rules.playerScore
                   /\ rules'.aiScore = rules.aiScore
                   /\ rules'.stats = [rules.stats EXCEPT !.playerMakes = @ + 1]
              ELSE /\ rules'.aiScore > rules.aiScore
                   /\ rules'.playerScore = rules.playerScore
                   /\ rules'.stats = [rules.stats EXCEPT !.aiMakes = @ + 1]
           /\ rules'.possession = obs'.team
           /\ ~rules'.shotClockActive
           /\ rules'.gameState =
                  IF rules'.playerScore >= WIN_SCORE \/ rules'.aiScore >= WIN_SCORE
                  THEN "gameOver" ELSE "checkBall"
      ]_vars

\* the AI's basket at 10-10 has ended the match
ScorePointsEndsMatchForAI ==
    /\ obs.event = "scorePoints"
    /\ obs.team = "ai"
    /\ rules.aiScore >= WIN_SCORE
    /\ rules.playerScore < WIN_SCORE
    /\ rules.possession = "ai"
    /\ rules.gameState = "gameOver"

\* C16: a basket by a ball in flight since its release adds to the score
\* the points for the spot its shooter stood at when releasing it,
\* THREE_POINT from THREE_POINT_RADIUS on and INSIDE nearer than that, also
\* when the shooter has crossed the arc while the ball was in the air
PointsByReleaseSpot ==
    [][(obs'.event = "score" /\ obs.worth # 0) =>
           (rules'.playerScore + rules'.aiScore)
               - (rules.playerScore + rules.aiScore) = obs.worth]_vars

\* C17: the manual reset (KeyR) leaves the game in checkBall with the shot
\* clock stopped, and leaves both scores and the possession as they were
ManualResetKeepsPossession ==
    [][obs'.event = "manualReset" =>
           /\ rules'.gameState = "checkBall"
           /\ ~rules'.shotClockActive
           /\ rules'.playerScore = rules.playerScore
           /\ rules'.aiScore = rules.aiScore
           /\ rules'.possession = rules.possession]_vars

\* C18: the Rules, the Players and the Ball of a match are created once;
\* resuming from the pause scene returns to the match that was paused, with
\* the scores, the possession, the shot clock and the positions it had when
\* Escape was pressed (nothing changes while the pause scene is active)
ResumeReturnsToTheMatch ==
    [][(gs.scene = "pause" /\ gs'.scene = "game") =>
           /\ rules'.playerScore = rules.playerScore
           /\ rules'.aiScore = rules.aiScore
           /\ rules'.possession = rules.possession
           /\ rules'.shotClock = rules.shotClock
           /\ rules'.gameState = rules.gameState
           /\ player'.y = player.y
           /\ ai'.y = ai.y
           /\ ball'.y = ball.y]_vars

\* C19: within one update the tests for a shot-clock violation, a basket, a
\* ball out of bounds and a pickup are made only after that update's input,
\* movement, collision, clamping and ball physics have been applied
TestsAfterTheStepIsApplied == ~obs.early

\* C20: an update that starts in checkBall does not run the AI's full
\* decision and action step: in it the AI neither starts nor charges nor
\* releases a shot
NoAIShotInCheckBall ==
    [][(/\ gs.scene = "game"
        /\ rules.gameState = "checkBall"
        /\ obs'.event # "manualReset") =>
           /\ ai.shotCharging \/ ~ai'.shotCharging
           /\ ai'.shotPower <= ai.shotPower
           /\ ~(ai.hasBall /\ ball.state = "held" /\ ball'.state = "inFlight")
      ]_vars

\* C21: when the AI has possession in checkBall, startLiveBall is called
\* only once the check-ball phase has lasted the full CHECK_BALL_DELAY,
\* counted from the update in which gameState became checkBall
AIStartsAfterFullDelay ==
    [][(/\ rules.gameState = "checkBall"
        /\ rules.possession = "ai"
        /\ rules'.gameState = "liveBall") =>
           obs'.waited >= CHECK_BALL_DELAY]_vars

\* C22: once a ball that was flagged out of bounds in liveBall is back
\* inside the court (the flag is cleared), the next update handled in
\* liveBall cancels the countdown (outOfBoundsTimer is back at none), and the
\* countdown gives the ball away only if the ball is still flagged and
\* still outside the court
CountdownCancelledWhenBallIsBack ==
    [][/\ (/\ rules.gameState = "liveBall"
           /\ rules'.gameState = "liveBall"
           /\ obs'.event \in {"none", "cancel"}
           /\ ~ball.isOutOfBounds
           /\ ~ball'.isOutOfBounds) => gs'.outOfBoundsTimer = NoTimer
       /\ obs'.event = "cancel" => rules'.possession = rules.possession
       /\ obs'.event = "recovery" =>
              ball.isOutOfBounds /\ ~InsideCourt(ball.y)
      ]_vars

\* the countdown of a ball that a Player has brought back into the court
\* has just been cancelled
CountdownCancelled ==
    /\ obs.event = "cancel"
    /\ rules.gameState = "liveBall"
    /\ ~ball.isOutOfBounds
    /\ InsideCourt(ball.y)
    /\ gs.outOfBoundsTimer = NoTimer

\* C23: executeShot called without a charge or without the ball returns
\* null, performStepBack called on cooldown returns false, and a call that
\* is refused in this way leaves every field of the Player as it was
RefusedCallsChangeNothing ==
    [][/\ (obs'.op = "executeShot" /\ (~player.shotCharging \/ ~player.hasBall))
              => obs'.result = "null"
       /\ (obs'.op = "executeShot" /\ obs'.result = "null") => player' = player
       /\ (obs'.op = "performStepBack" /\ player.stepBackCooldown > 0)
              => obs'.result = "false"
       /\ (obs'.op = "performStepBack" /\ obs'.result = "false")
              => player' = player
      ]_vars

\* a step back was refused on a Player that is on cooldown after an
\* accepted one
StepBackRefusedOnCooldown ==
    /\ obs.op = "performStepBack"
    /\ obs.result = "false"
    /\ player.stepBackCooldown > 0
    /\ player.stepBackCooldown < STEPBACK_COOLDOWN
    /\ player.hasBall

\* C24: attemptSteal returns false and leaves the attacker's stealCooldown
\* alone when that cooldown is running, the target has no ball, the target
\* is invulnerable or the two are more than 3 * PLAYER_RADIUS apart; when
\* none of the four holds it sets stealCooldown to STEAL_COOLDOWN whatever
\* the random trial gives; it never changes the hasBall of either Player
StealRefusedOrArmed ==
    [][obs'.op = "attemptSteal" =>
           /\ IF \/ player.stealCooldown > 0
                 \/ ~ai.hasBall
                 \/ ai.invulnerableTime > 0
                 \/ distance(player.y, ai.y) > 3 * PLAYER_RADIUS
              THEN /\ obs'.result = "false"
                   /\ player'.stealCooldown = player.stealCooldown
              ELSE player'.stealCooldown = STEAL_COOLDOWN
           /\ player'.hasBall = player.hasBall
           /\ ai'.hasBall = ai.hasBall
      ]_vars

\* a steal has won its random trial: the cooldown is armed and the ball is
\* still with the target
StealWonCooldownArmed ==
    /\ obs.op = "attemptSteal"
    /\ obs.result = "true"
    /\ player.stealCooldown = STEAL_COOLDOWN
    /\ ai.hasBall
    /\ ~player.hasBall

\* C25: every frame of the GameLoop makes a whole number of fixed-step
\* updates, at most MAX_ACCUMULATOR / FIXED_TIMESTEP of them, then exactly
\* one render, and the accumulator it computes alpha from is at least 0 and
\* below one fixed step (0 <= alpha < 1)
FrameUpdatesThenRender ==
    obs.ran =>
        /\ Len(obs.log) >= 1
        /\ Len(obs.log) - 1 <= MAX_ACCUMULATOR \div FIXED_TIMESTEP
        /\ \A i \in 1 .. Len(obs.log) :
               obs.log[i] = (IF i = Len(obs.log) THEN "render" ELSE "update")
        /\ obs.left >= 0
        /\ obs.left < FIXED_TIMESTEP

----------------------------------------------------------------------------
(* The AIController updated in steps shorter than its decision delay *)

\* the lengths of a tick the controller is updated with
AISteps == {50, 70}

\* a match at the check ball the AI starts from, or gone live by the
\* human's first move
AIInit ==
    \E s \in SettingsChoices :
        \/ Starts(LET w == EnterGame(s)
                  IN  setupInitialPositions(
                          [w EXCEPT !.rules = changePossession(w.rules, "ai")]))
        \/ \E in \in Inputs :
              /\ in.dir # 0
              /\ ~in.isDown
              /\ Starts(GameSceneUpdate(EnterGame(s), in))

\* what handleCheckBall (with the AI in possession) and handleLiveBall do
\* up to the position of the ball: the human's input, the AIController's
\* update, the update of the two players
AITick ==
    \E dt \in AISteps, in \in Inputs :
        \E w \in {updateBallPosition(
                     MovePlayers(AIUpdate(handlePlayerInput(World, in), dt, in.coin),
                                 rules.gameState = "liveBall"))} :
            /\ w.obs.shots <= MaxShots
            /\ in.dir # 0 => w.player.y >= WalkMin /\ w.player.y <= WalkMax
            /\ Becomes([w EXCEPT !.player = PlayerRest(w.player),
                                 !.ai = PlayerRest(w.ai)])

AINext == AITick

AISpec == AIInit /\ [][AINext]_vars

\* C26: makeDecision runs only in an update that finds the decision timer
\* run out, the timer is then DECISION_DELAY again and the controller has
\* been updated for at least DECISION_DELAY since its previous decision; in
\* every other update the behaviour label changes only from shoot or layup
\* to idle.
DecisionsOnlyWhenTimerRanOut ==
    [][/\ obs'.decided =>
            /\ \E dt \in AISteps : aic.decisionTimer - dt <= 0
            /\ aic'.decisionTimer = DECISION_DELAY
            /\ obs'.gap # NoTimer => obs'.gap >= DECISION_DELAY
       /\ (~obs'.decided /\ aic'.state # aic.state) =>
            (aic.state \in {"shoot", "layup"} /\ aic'.state = "idle")]_vars

\* a decision that is not the controller's first
DecidedAgain ==
    obs.decided /\ obs.gap # NoTimer /\ obs.gap >= DECISION_DELAY

NoFlightInCheckBall ==
    ~(ball.state = "inFlight" /\ rules.gameState = "checkBall")

\* C29: a held ball has hasScored = FALSE, so isScore() is false for it.
HeldBallHasNotScored ==
    ball.state = "held" => ~ball.hasScored /\ ~isScore(ball)

----------------------------------------------------------------------------
(* The match with a human who keeps moving toward the ball and never shoots, *)
(* and updates that keep coming.                                            *)

\* the human walks toward the ball, or keeps walking with it
ChaseInputs(w) ==
    {in \in Inputs :
        /\ ~in.isDown
        /\ in.dir \in (IF w.player.hasBall THEN {-1, 1}
                       ELSE {Sign(w.ball.y - w.player.y)})}

ChaseTick ==
    /\ gs.scene = "game"
    /\ \E in \in ChaseInputs(World) :
          \E w \in {GameUpdate(World, in)} :
              /\ w.obs.baskets <= MaxBaskets
              /\ Becomes(w)

ChaseNext == ChaseTick

\* requestAnimationFrame keeps calling the loop, so updates keep coming
ChaseSpec == Init /\ [][ChaseNext]_vars /\ WF_vars(ChaseTick)

\* C30: check ball always ends: with updates that keep coming and a human
\* who keeps moving toward the ball the game leaves checkBall, so no state in
\* checkBall is left as it is by every such update (from a state like that
\* the game is in checkBall for good).
CheckBallEnds ==
    ~(/\ gs.scene = "game"
      /\ rules.gameState = "checkBall"
      /\ \A in \in ChaseInputs(World) : GameUpdate(World, in) = World)

\* C31: a shot released before the shot clock reaches zero is allowed to
\* finish: an update that finds the ball in flight in live play calls no
\* shot-clock violation, keeps possession and leaves the ball in flight or
\* loose.
ShotInFlightIsAllowedToFinish ==
    [][(ball.state = "inFlight" /\ rules.gameState = "liveBall"
            /\ gs.scene = "game" /\ gs'.scene = "game"
            /\ obs'.event \notin {"score", "pickup", "recovery", "manualReset"})
        => /\ obs'.event # "violation"
           /\ rules'.possession = rules.possession
           /\ ball'.state # "held"]_vars

\* C32: for each side the baskets credited never outnumber the shot attempts
\* registered: an update of a match in which makes <= shots holds for both
\* sides leaves it so.
MakesNeverExceedShots ==
    [][(/\ rules.stats.playerMakes <= rules.stats.playerShots
        /\ rules.stats.aiMakes <= rules.stats.aiShots)
        => /\ rules'.stats.playerMakes <= rules'.stats.playerShots
           /\ rules'.stats.aiMakes <= rules'.stats.aiShots]_vars

----------------------------------------------------------------------------
(* The settings across the scenes: the menu's GameSettings object, the     *)
(* Game's own GameSettings object, the item in localStorage, and the Rules *)
(* of the match a scene switch starts. gs holds the scene, the two         *)
(* settings objects and the storage (a sequence with the stored text, or   *)
(* the empty sequence); obs records the last operation, the settings last  *)
(* saved, the settings of the match that finished last, and whether the    *)
(* running match was started from the menu. Volumes are in percent, the    *)
(* shot clock in ms.                                                       *)

SHOT_CLOCK_DEFAULT == 24000
STORAGE_VERSION == 1
\* JSON's null; arithmetic and comparison read it as 0
null == 0
\* the time one update of a match covers in this specification, in ms
MatchStep == 4000

SHOT_CLOCK_OPTIONS == {12000, 24000, Infinity}

\* new GameSettings()
DefaultSettings ==
    [difficulty |-> "STANDARD", shotClockDuration |-> SHOT_CLOCK_DEFAULT,
     scoringSystem |-> "street",
     masterVolume |-> 70, musicVolume |-> 30, sfxVolume |-> 70]

\* the numbers a stored text can stand for
JSONNumbers == (0..100) \cup (SHOT_CLOCK_OPTIONS \ {Infinity})

\* JSON.stringify of a number: its digits, and null for a number that is not
\* finite
StringifyNumber(n) == IF n = Infinity THEN "null" ELSE ToString(n)

\* JSON.parse of the text of a number or of null
ParseNumber(t) ==
    IF t = "null" THEN null ELSE CHOOSE n \in JSONNumbers : ToString(n) = t

\* GameSettings.save: the text put into localStorage
SettingsSave(s) ==
    [version |-> ToString(STORAGE_VERSION),
     settings |-> [difficulty |-> s.difficulty,
                   shotClockDuration |-> StringifyNumber(s.shotClockDuration),
                   scoringSystem |-> s.scoringSystem,
                   masterVolume |-> StringifyNumber(s.masterVolume),
                   musicVolume |-> StringifyNumber(s.musicVolume),
                   sfxVolume |-> StringifyNumber(s.sfxVolume)]]

\* GameSettings.load on the object s
SettingsLoad(s, storage) ==
    IF Len(storage) = 0 THEN s
    ELSE LET parsed == storage[1]
         IN  IF ParseNumber(parsed.version) = STORAGE_VERSION
             THEN [difficulty |-> parsed.settings.difficulty,
                   shotClockDuration |->
                       ParseNumber(parsed.settings.shotClockDuration),
                   scoringSystem |-> parsed.settings.scoringSystem,
                   masterVolume |-> ParseNumber(parsed.settings.masterVolume),
                   musicVolume |-> ParseNumber(parsed.settings.musicVolume),
                   sfxVolume |-> ParseNumber(parsed.settings.sfxVolume)]
             ELSE s

\* the values of the settings form
FormChoices ==
    [difficulty : {"CASUAL", "STANDARD"},
     shotClock : SHOT_CLOCK_OPTIONS,
     scoring : {"street", "classic"},
     sfxVolume : {50},
     musicVolume : {30}]

\* the rest of a match in which one side makes every basket
RECURSIVE PlayedOut(_, _)
PlayedOut(r, team) ==
    IF r.gameState = "gameOver" THEN r
    ELSE LET r1 == IF team = "player" THEN registerShotAttempt(r, team) ELSE r
         IN  PlayedOut(scorePoints(r1, team, CHECK_Y), team)

MenuBecomes(g, r, o) ==
    /\ gs' = g
    /\ rules' = r
    /\ obs' = o
    /\ UNCHANGED <<player, ai, ball, aic>>

\* the page is loaded: the Game and the MenuScene are constructed, and the
\* menu is entered
MenuInit ==
    Starts([EnterGame(DefaultSettings) EXCEPT
               !.rules = NewRules(DefaultSettings),
               !.gs = [scene |-> "menu", menuSettings |-> DefaultSettings,
                       gameSettings |-> DefaultSettings, storage |-> <<>>],
               !.obs = [op |-> "none", saved |-> DefaultSettings,
                        played |-> DefaultSettings, fromMenu |-> FALSE]])

\* MenuScene.saveSettings
MenuSaveSettings ==
    /\ gs.scene = "menu"
    /\ \E f \in FormChoices :
         LET s == [gs.menuSettings EXCEPT !.difficulty = f.difficulty,
                                          !.shotClockDuration = f.shotClock,
                                          !.scoringSystem = f.scoring,
                                          !.sfxVolume = f.sfxVolume,
                                          !.musicVolume = f.musicVolume]
         IN  MenuBecomes([gs EXCEPT !.menuSettings = s,
                                    !.storage = <<SettingsSave(s)>>],
                         rules,
                         [obs EXCEPT !.op = "save", !.saved = s])

\* the page is loaded again: new objects and no match yet, the storage as it
\* was left
PageReload ==
    /\ Len(gs.storage) > 0
    /\ MenuBecomes([gs EXCEPT !.scene = "menu",
                              !.menuSettings =
                                  SettingsLoad(DefaultSettings, gs.storage),
                              !.gameSettings = DefaultSettings],
                   NewRules(DefaultSettings),
                   [obs EXCEPT !.op = "load", !.played = DefaultSettings,
                               !.fromMenu = FALSE])

\* btn-play: switchTo('game', { settings }) and GameScene.enter
MenuPlay ==
    /\ gs.scene = "menu"
    /\ MenuBecomes([gs EXCEPT !.scene = "game"],
                   NewRules(gs.menuSettings),
                   [obs EXCEPT !.op = "play", !.fromMenu = TRUE])

\* the check ball is completed
MatchGoesLive ==
    /\ gs.scene = "game"
    /\ rules.gameState = "checkBall"
    /\ MenuBecomes(gs, startLiveBall(rules), [obs EXCEPT !.op = "live"])

\* GameScene.update of a live ball: Rules.update
MatchUpdate ==
    /\ gs.scene = "game"
    /\ rules.gameState = "liveBall"
    /\ LET r == RulesUpdate(rules, MatchStep)
       IN  MenuBecomes(gs, r,
                       [obs EXCEPT !.op = IF r.gameState = "checkBall"
                                          THEN "violation" ELSE "update"])

\* the baskets up to the end of the match
MatchPlayedOut ==
    /\ gs.scene = "game"
    /\ rules.gameState # "gameOver"
    /\ \E team \in {"player", "ai"} :
         MenuBecomes(gs, PlayedOut(rules, team), [obs EXCEPT !.op = "baskets"])

\* GameScene.update of a match that is over
MatchOver ==
    /\ gs.scene = "game"
    /\ rules.gameState = "gameOver"
    /\ MenuBecomes([gs EXCEPT !.scene = "gameover"], rules,
                   [obs EXCEPT !.op = "gameover", !.played = rules.settings])

\* btn-replay: switchTo('game') and GameScene.enter
GameOverReplay ==
    /\ gs.scene = "gameover"
    /\ MenuBecomes([gs EXCEPT !.scene = "game"],
                   NewRules(gs.gameSettings),
                   [obs EXCEPT !.op = "replay", !.fromMenu = FALSE])

\* btn-menu: switchTo('menu') and MenuScene.enter
GameOverMenu ==
    /\ gs.scene = "gameover"
    /\ MenuBecomes([gs EXCEPT !.scene = "menu",
                              !.menuSettings =
                                  SettingsLoad(gs.menuSettings, gs.storage)],
                   rules,
                   [obs EXCEPT !.op = "load"])

MenuNext ==
    \/ MenuSaveSettings
    \/ PageReload
    \/ MenuPlay
    \/ MatchGoesLive
    \/ MatchUpdate
    \/ MatchPlayedOut
    \/ MatchOver
    \/ GameOverReplay
    \/ GameOverMenu

MenuSpec == MenuInit /\ [][MenuNext]_vars

\* C33: the settings a load reads are the settings the last save wrote, for
\* each option of the shot clock, and a match started from the menu after an
\* unlimited clock was saved has no shot clock violation
SaveThenLoadRestores ==
    /\ obs.op = "load" /\ Len(gs.storage) > 0 => gs.menuSettings = obs.saved
    /\ (/\ obs.op = "violation" /\ obs.fromMenu
        /\ Len(gs.storage) > 0)
           => obs.saved.shotClockDuration # Infinity

\* C34: the match a replay starts has the settings of the match that has
\* just finished
ReplayKeepsSettings ==
    obs.op = "replay" => rules.settings = obs.played

----------------------------------------------------------------------------
(* The GameLoop with the callbacks it has handed to requestAnimationFrame. *)
(* gs.pending counts the callbacks waiting for the next frame, gs.firing   *)
(* the callbacks of the frame in progress that have not run yet; start and *)
(* stop are called between frames. obs.loops counts the calls of loop in   *)
(* the latest frame that got past the isRunning test.                      *)

\* callbacks that can wait for one frame
MaxPending == 3

FrameInit ==
    \E s \in SettingsChoices :
        Starts([EnterGame(s) EXCEPT
                   !.gs = [isRunning |-> FALSE, lastTime |-> 0,
                           accumulator |-> 0, clock |-> 0,
                           pending |-> 0, firing |-> 0],
                   !.obs = [loops |-> 0, op |-> "none"]])

\* GameLoop.start at some time now, not before the latest frame began
FrameStart ==
    /\ gs.firing = 0
    /\ gs.pending < MaxPending
    /\ \E now \in gs.clock .. Min(MaxTime, gs.clock + MaxSkew) :
         IF gs.isRunning THEN LoopBecomes(gs, [obs EXCEPT !.op = "start"])
         ELSE LoopBecomes([gs EXCEPT !.isRunning = TRUE, !.lastTime = now,
                                     !.accumulator = 0,
                                     !.pending = @ + 1],
                          [obs EXCEPT !.op = "start"])

\* GameLoop.stop
FrameStop ==
    /\ gs.firing = 0
    /\ LoopBecomes([gs EXCEPT !.isRunning = FALSE], [obs EXCEPT !.op = "stop"])

\* the browser begins a frame: the callbacks that wait are the ones it runs
FrameBegins ==
    /\ gs.firing = 0
    /\ gs.pending > 0
    /\ \E currentTime \in gs.clock .. MaxTime :
         LoopBecomes([gs EXCEPT !.clock = currentTime, !.firing = gs.pending,
                                !.pending = 0],
                     [loops |-> 0, op |-> "frame"])

\* GameLoop.loop as one of the callbacks of the frame
FrameCallback ==
    /\ gs.firing > 0
    /\ IF ~gs.isRunning
       THEN LoopBecomes([gs EXCEPT !.firing = @ - 1],
                        [obs EXCEPT !.op = "return"])
       ELSE LET deltaTime == Min(MAX_ACCUMULATOR, gs.clock - gs.lastTime)
                run == RunUpdates(gs.accumulator + deltaTime, <<>>)
            IN  LoopBecomes([gs EXCEPT !.firing = @ - 1,
                                       !.pending = @ + 1,
                                       !.lastTime = gs.clock,
                                       !.accumulator = run.accumulator],
                            [loops |-> obs.loops + 1, op |-> "loop"])

FrameNext == FrameStart \/ FrameStop \/ FrameBegins \/ FrameCallback

FrameSpec == FrameInit /\ [][FrameNext]_vars

\* C35: a running GameLoop has at most one callback waiting or about to
\* run, and no frame calls loop more than once
OneCallbackChain ==
    /\ gs.isRunning => gs.pending + gs.firing <= 1
    /\ obs.loops <= 1

\* C36: after reset every field of the Rules has the value it has in a
\* Rules newly constructed with the same settings
ResetGivesNewRules ==
    obs.event = "reset" => rules = NewRules(rules.settings)

----------------------------------------------------------------------------
(* GameScene.update with the right button: the step back moves the Player  *)
(* 1.5 m against its facing. obs.facing is the component of the facing     *)
(* along the court: the direction of the last movement the human asked     *)
(* for, 0 for a Player that faces across the court (as a new Player does). *)

STEP_DISTANCE == 150

CourtInputs ==
    [dir : {-1, 0, 1}, isDown : {FALSE}, rightJustPressed : BOOLEAN,
     luck : {FALSE}, coin : BOOLEAN]

\* applyMovement sets the facing before the right button is looked at
FacingAfter(w, in) == IF in.dir # 0 THEN in.dir ELSE w.obs.facing

\* the step performStepBack moves the human's Player by. No shot is charged
\* here, so nothing between the step and the update of the Players reads the
\* position: the step is taken at the start of the tick
StepBackMove(w, in) ==
    IF /\ in.rightJustPressed
       /\ w.rules.gameState \in {"checkBall", "liveBall"}
       /\ w.player.hasBall
       /\ w.player.stepBackCooldown = 0
    THEN [w EXCEPT !.player.y = @ - FacingAfter(w, in) * STEP_DISTANCE,
                   !.obs.facing = FacingAfter(w, in)]
    ELSE [w EXCEPT !.obs.facing = FacingAfter(w, in)]

CourtTick ==
    /\ gs.scene = "game"
    /\ \E in \in CourtInputs :
          \E w \in {GameSceneUpdate(StepBackMove(World, in), in)} :
              /\ w.obs.baskets <= MaxBaskets
              /\ in.dir # 0 => w.player.y >= WalkMin /\ w.player.y <= WalkMax
              /\ Becomes(w)

CourtInit == \E s \in SettingsChoices : Starts(EnterGame(s))

CourtNext == CourtTick

CourtSpec == CourtInit /\ [][CourtNext]_vars

\* C37: at the end of every tick in checkBall and in liveBall both Players
\* are inside the court, the ticks with a step back or a collision push
\* included
PlayersStayInCourt ==
    rules.gameState \in {"checkBall", "liveBall"}
        => /\ player.y >= PLAYER_RADIUS /\ player.y <= COURT_LENGTH - PLAYER_RADIUS
           /\ ai.y >= PLAYER_RADIUS /\ ai.y <= COURT_LENGTH - PLAYER_RADIUS

\* a step back that would have left the court ends at its edge
SteppedBackAtEdge ==
    /\ rules.gameState \in {"checkBall", "liveBall"}
    /\ player.stepBackCooldown = STEPBACK_COOLDOWN - DT
    /\ player.y = PLAYER_RADIUS

----------------------------------------------------------------------------
(* The Ball on its own: released, updated again and again, attached. obs   *)
(* records the last operation and the state of the ball before it.         *)

\* the highest vertical speed of a release, on the vertical grid
MaxLaunchVz == 7

\* the horizontal speeds of a release, in cm per step
ReleaseVy == {-400, -200, -100, 0, 100}

\* where a Player picks the ball up or is handed it
BallSpots == {CHECK_Y - 200, CHECK_Y + 200}

BallBecomes(b, op) ==
    /\ ball' = b
    /\ obs' = [op |-> op, before |-> ball.state]
    /\ UNCHANGED <<rules, player, ai, gs, aic>>

BallInit ==
    \E s \in SettingsChoices :
        Starts([EnterGame(s) EXCEPT !.obs = [op |-> "none", before |-> "held"]])

\* Ball.release by the Player that holds the ball
BallRelease ==
    /\ ball.state = "held"
    /\ \E vy \in ReleaseVy, vz \in LAUNCH_VZ .. MaxLaunchVz :
          BallBecomes(release(ball, vy, vz), "release")

\* Ball.update
BallStep == BallBecomes(BallUpdate(ball), "update")

\* Ball.attachTo
BallAttach ==
    /\ ball.state # "held"
    /\ \E team \in Teams, y \in BallSpots :
          BallBecomes(attachTo(ball, team, y), "attach")

BallNext == BallRelease \/ BallStep \/ BallAttach

\* the loop keeps calling update
BallSpec == BallInit /\ [][BallNext]_vars /\ WF_vars(BallStep)

\* C38: under repeated update every ball in flight leaves 'inFlight'; an
\* update leaves 'inFlight' only to 'free', never takes a 'free' ball back
\* to 'inFlight', and leaves a 'held' ball 'held'
EveryFlightEnds ==
    /\ (ball.state = "inFlight") ~> (ball.state # "inFlight")
    /\ [][obs'.op = "update"
             => /\ ball.state = "inFlight" => ball'.state \in {"inFlight", "free"}
                /\ ball.state = "free" => ball'.state = "free"
                /\ ball.state = "held" => ball'.state = "held"]_vars

\* a flight has ended on the ground
FlightEndedOnGround ==
    /\ obs.op = "update"
    /\ obs.before = "inFlight"
    /\ ball.state = "free"
    /\ ball.z = BALL_RADIUS_Z

\* C39: after any sequence of calls of the Rules, an active shot clock
\* means the game is in liveBall
ActiveClockMeansLiveBall ==
    rules.shotClockActive => rules.gameState = "liveBall"

\* C40: a held ball is never flagged out of bounds, whichever way it came
\* to be held
HeldBallIsNotOutOfBounds ==
    ball.state = "held" => ~ball.isOutOfBounds

\* a ball picked up where it lay beyond the line
PickedUpBeyondTheLine ==
    /\ obs.event = "pickup"
    /\ ball.state = "held"
    /\ ~InsideCourt(ball.y)

====
